---- MODULE Spec2Model ----
(***************************************************************************)
(* Model of aer's `update` command (src/aer/src/main.rs): the batch loop   *)
(* of main over the package files and run_update, which loads one package, *)
(* resolves its candidate links (one fetch, or a filtered fetch followed   *)
(* by a drill-down into the first match) and folds the package's regex     *)
(* entries over the candidates into aarch32 / aarch64 / others.            *)
(***************************************************************************)
EXTENDS Integers, Sequences, FiniteSets, TLC

\* ------------------------------------------------------------------ bounds
MaxFiles == 3
MaxLinks == 2
MaxEntries == 2

\* ------------------------------------------------------- option encoding
None ==
    [tag |-> "None"]

Some(v) ==
    [tag |-> "Some", val |-> v]

\* --------------------------------------------------------- input universe
\* The hrefs a fetched page may carry.
Hrefs ==
    {"app-2.3.1-x86.exe", "app-latest-x64.exe"}

\* The url a package's parse_url names.
IndexUrl ==
    "https://example.org/downloads"

PatVersion ==
    "app-(?P<version>[a-z0-9.]+)-x"

PatX86 ==
    "x86"

PatInvalid ==
    "("

\* The regex sources a package may carry (as a first-level filter or as a
\* classification pattern).
Patterns ==
    {PatVersion, PatX86, PatInvalid}

\* The keys a package's regexes mapping may carry.
Names ==
    {"arch32", "ARCH32", "Arch64", "other", "mirror"}

\* Text as a sequence of characters, so that parsing it is a computation.
Chars(s) ==
    CASE s = "2.3.1" -> <<"2", ".", "3", ".", "1">>
      [] s = "latest" -> <<"l", "a", "t", "e", "s", "t">>
      [] OTHER -> <<>>

\* ------------------------------------------------------------ regex crate
\* Regex::new(&regex): does the source compile?
RegexNew(p) ==
    p # PatInvalid

NoMatch ==
    [matched |-> FALSE, version |-> None]

\* re.captures(href): whether the (unanchored) pattern matches the href and,
\* if so, the text of the named group `version` when that group took part.
Captures(p, href) ==
    CASE p = PatVersion /\ href = "app-2.3.1-x86.exe" ->
            [matched |-> TRUE, version |-> Some(Chars("2.3.1"))]
      [] p = PatVersion /\ href = "app-latest-x64.exe" ->
            [matched |-> TRUE, version |-> Some(Chars("latest"))]
      [] p = PatX86 /\ href = "app-2.3.1-x86.exe" ->
            [matched |-> TRUE, version |-> None]
      [] OTHER -> NoMatch

\* str::to_lowercase on the keys of the universe.
ToLowercase(s) ==
    CASE s = "ARCH32" -> "arch32"
      [] s = "Arch64" -> "arch64"
      [] OTHER -> s

\* --------------------------------------------------------- version parser
DigitChars ==
    <<"0", "1", "2", "3", "4", "5", "6", "7", "8", "9">>

IsDigit(c) ==
    \E i \in 1..Len(DigitChars) : DigitChars[i] = c

DigitVal(c) ==
    (CHOOSE i \in 1..Len(DigitChars) : DigitChars[i] = c) - 1

\* Dotted numeric components: scan raw from position i; cur is the value of
\* the component being read, n the number of its digits, acc the components
\* read so far.  Any other character, or an empty component, is a failure.
RECURSIVE ParseFrom(_, _, _, _, _)
ParseFrom(raw, i, cur, n, acc) ==
    IF i > Len(raw)
    THEN IF n = 0 THEN None ELSE Some(Append(acc, cur))
    ELSE IF raw[i] = "."
         THEN IF n = 0 THEN None ELSE ParseFrom(raw, i + 1, 0, 0, Append(acc, cur))
         ELSE IF IsDigit(raw[i])
              THEN ParseFrom(raw, i + 1, cur * 10 + DigitVal(raw[i]), n + 1, acc)
              ELSE None

\* Versions::parse(raw): Some(version) on success, None on failure.
VersionsParse(raw) ==
    ParseFrom(raw, 1, 0, 0, <<>>)

\* ------------------------------------------------------ fetch collaborator
\* What a page handle yields: every hyperlink of the page as a link without
\* a version, in document order.
PageLinks(page) ==
    [i \in 1..Len(page) |-> [link |-> page[i], version |-> None]]

\* WebResponse::read(filter): all links when the filter is absent, only the
\* links whose href matches it when present.
Read(page, filter) ==
    IF filter = None
    THEN PageLinks(page)
    ELSE SelectSeq(PageLinks(page), LAMBDA l : Captures(filter.val, l.link).matched)

\* Pages of at most n hyperlinks.
PagesUpTo(n) ==
    UNION {[1..k -> Hrefs] : k \in 0..n}

Pages ==
    PagesUpTo(MaxLinks)

\* ------------------------------------------------------------ package data
ParseUrls ==
    {None}
    \cup {Some([tag |-> "Url", url |-> IndexUrl])}
    \cup {Some([tag |-> "UrlWithRegex", url |-> IndexUrl, regex |-> p]) : p \in Patterns}

RegexEntry ==
    [key : Names, regex : Patterns]

\* choco.regexes(): a mapping, so the keys of its entries are distinct.
RegexLists ==
    {es \in UNION {[1..k -> RegexEntry] : k \in 0..MaxEntries} :
        \A i, j \in 1..Len(es) : i # j => es[i].key # es[j].key}

NoPackage ==
    [has_chocolatey |-> FALSE, parse_url |-> None, regexes |-> <<>>]

PackageData ==
    {NoPackage}
    \cup [has_chocolatey : {TRUE}, parse_url : ParseUrls, regexes : RegexLists]

\* ------------------------------------------------------------------ state
VARIABLES
    fileIdx,     \* how many of args.package_files the loop of main has taken
    pc,          \* position of the control flow
    result,      \* main's `result`
    exitCode,    \* Some(code) once the process has ended
    data,        \* run_update's `data`
    firstLevel,  \* the inner `urls` of the UrlWithRegex arm
    urls,        \* run_update's outer `urls`
    idx,         \* position of the for loop over choco.regexes()
    aarch32,
    aarch64,
    others,
    ret,         \* the value run_update returned to main
    attempted,   \* history: the files run_update was called on, in call order
    outcomes,    \* history: how each of those calls ended
    fetches,     \* history: the requests made for the current file
    lastPage,        \* history: the raw page the latest fetch returned
    resolution   \* history: which arm produced the current file's `urls`

vars ==
    <<fileIdx, pc, result, exitCode, data, firstLevel, urls, idx,
      aarch32, aarch64, others, ret, attempted, outcomes, fetches, lastPage,
      resolution>>

Ok ==
    [tag |-> "Ok"]

Err(kind) ==
    [tag |-> "Err", err |-> kind]

Init ==
    /\ fileIdx = 0
    /\ pc = "main_loop"
    /\ result = Ok
    /\ exitCode = None
    /\ data = NoPackage
    /\ firstLevel = <<>>
    /\ urls = <<>>
    /\ idx = 0
    /\ aarch32 = None
    /\ aarch64 = None
    /\ others = <<>>
    /\ ret = Ok
    /\ attempted = <<>>
    /\ outcomes = <<>>
    /\ fetches = <<>>
    /\ lastPage = <<>>
    /\ resolution = "none"


\* ------------------------------------------------------- run_update pieces
ChocoRegexes ==
    data.regexes

\* Variant: a link whose version text does not parse is not kept.
NewLinkStrict(re, link) ==
    LET capture == Captures(re, link.link)
        raw == IF capture.version = None THEN <<>> ELSE capture.version.val
        version == VersionsParse(raw)
    IN  IF ~capture.matched \/ version = None
        THEN None
        ELSE Some([link EXCEPT !.version = Some(version.val)])

\* The closure of the filter_map: None when the pattern does not match the
\* link's href, otherwise a copy of the link whose version is set when the
\* text of the `version` group (the empty text when the group took no part)
\* parses.
NewLink(re, link) ==
    LET capture == Captures(re, link.link)
        raw == IF capture.version = None THEN <<>> ELSE capture.version.val
        version == VersionsParse(raw)
    IN  IF ~capture.matched
        THEN None
        ELSE IF version # None
             THEN Some([link EXCEPT !.version = Some(version.val)])
             ELSE Some(link)

\* `items`: the links of `urls` the closure keeps, in the order of `urls`.
RECURSIVE Items(_, _)
Items(re, ls) ==
    IF ls = <<>>
    THEN <<>>
    ELSE LET new_link == NewLink(re, Head(ls))
         IN  IF new_link = None
             THEN Items(re, Tail(ls))
             ELSE <<new_link.val>> \o Items(re, Tail(ls))

\* Variant: the last match instead of the first.
ItemsLast(items) ==
    IF items = <<>> THEN None ELSE Some(items[Len(items)])

\* items.next()
ItemsNext(items) ==
    IF items = <<>> THEN None ELSE Some(Head(items))

\* Variant: the drill-down follows the last first-level match.
DrillTargetLast(first) ==
    first[Len(first)].link

\* urls.get(0).unwrap().link: the href the drill-down fetches.
DrillTarget(first) ==
    first[1].link

\* Variant: the direct read is filtered.
DirectFilterX86 ==
    Some(PatX86)

\* The filter handed to read() by each arm.
DirectFilter ==
    None

FirstLevelFilter(regex) ==
    Some(regex)

DrillFilter ==
    None

Request(url, filter) ==
    [url |-> url, filter |-> filter]

\* run_update ends with the value r: `?` on an Err, or the final Ok(()).
Return(r) ==
    /\ ret' = r
    /\ pc' = "returned"
    /\ outcomes' = Append(outcomes, r)

Exited(code) ==
    [tag |-> "Exit", code |-> code]

\* The frame of run_update before its first statement.
FreshFrame ==
    /\ data' = NoPackage
    /\ firstLevel' = <<>>
    /\ urls' = <<>>
    /\ idx' = 0
    /\ aarch32' = None
    /\ aarch64' = None
    /\ others' = <<>>
    /\ fetches' = <<>>
    /\ lastPage' = <<>>
    /\ resolution' = "none"

\* ----------------------------------------------------------------- actions
\* The iterator over args.package_files yields one more file (a batch holds
\* at most MaxFiles) and main calls run_update, which reads it.
ReadFile ==
    /\ pc = "main_loop"
    /\ fileIdx < MaxFiles
    /\ fileIdx' = fileIdx + 1
    /\ attempted' = Append(attempted, fileIdx + 1)
    /\ firstLevel' = <<>>
    /\ urls' = <<>>
    /\ idx' = 0
    /\ aarch32' = None
    /\ aarch64' = None
    /\ others' = <<>>
    /\ fetches' = <<>>
    /\ lastPage' = <<>>
    /\ resolution' = "none"
    /\ \/ /\ data' = NoPackage
          /\ Return(Err("DefinitionParseError"))
       \/ /\ \E d \in PackageData : data' = d
          /\ pc' = "loaded"
          /\ UNCHANGED <<ret, outcomes>>
    /\ UNCHANGED <<result, exitCode>>

\* The package has no Chocolatey updater data: nothing to do.
NoChocolatey ==
    /\ pc = "loaded"
    /\ ~data.has_chocolatey
    /\ Return(Ok)
    /\ UNCHANGED <<fileIdx, result, exitCode, data, firstLevel, urls, idx,
                   aarch32, aarch64, others, attempted, fetches, lastPage, resolution>>

\* Variant: an absent parse_url ends the process like a runtime error.
MissingParseUrlAsRuntime ==
    /\ pc = "loaded"
    /\ data.has_chocolatey
    /\ data.parse_url = None
    /\ pc' = "finished"
    /\ exitCode' = Some(1)
    /\ outcomes' = Append(outcomes, Exited(1))
    /\ UNCHANGED <<fileIdx, result, data, firstLevel, urls, idx, aarch32,
                   aarch64, others, ret, attempted, fetches, lastPage, resolution>>

\* parse_url is absent: warn and std::process::exit(5), from inside run_update.
MissingParseUrl ==
    /\ pc = "loaded"
    /\ data.has_chocolatey
    /\ data.parse_url = None
    /\ pc' = "finished"
    /\ exitCode' = Some(5)
    /\ outcomes' = Append(outcomes, Exited(5))
    /\ UNCHANGED <<fileIdx, result, data, firstLevel, urls, idx, aarch32,
                   aarch64, others, ret, attempted, fetches, lastPage, resolution>>

\* ChocolateyParseUrl::Url(url)
FetchDirect ==
    /\ pc = "loaded"
    /\ data.has_chocolatey
    /\ data.parse_url # None
    /\ data.parse_url.val.tag = "Url"
    /\ fetches' = Append(fetches, Request(data.parse_url.val.url, DirectFilter))
    /\ \/ /\ Return(Err("FetchError"))
          /\ UNCHANGED <<urls, lastPage, resolution>>
       \/ \E p \in Pages :
            /\ lastPage' = p
            /\ urls' = Read(p, DirectFilter)
            /\ resolution' = "direct"
            /\ pc' = "resolved"
            /\ UNCHANGED <<ret, outcomes>>
    /\ UNCHANGED <<fileIdx, result, exitCode, data, firstLevel, idx,
                   aarch32, aarch64, others, attempted>>

\* ChocolateyParseUrl::UrlWithRegex { url, regex }: the first, filtered read.
FetchFirstLevel ==
    /\ pc = "loaded"
    /\ data.has_chocolatey
    /\ data.parse_url # None
    /\ data.parse_url.val.tag = "UrlWithRegex"
    /\ LET regex == data.parse_url.val.regex
       IN  /\ fetches' = Append(fetches,
                                Request(data.parse_url.val.url, FirstLevelFilter(regex)))
           /\ \/ /\ Return(Err("FetchError"))
                 /\ UNCHANGED <<firstLevel, lastPage>>
              \/ \E p \in Pages :
                   /\ RegexNew(regex)
                   /\ lastPage' = p
                   /\ firstLevel' = Read(p, FirstLevelFilter(regex))
                   /\ pc' = "first_level"
                   /\ UNCHANGED <<ret, outcomes>>
    /\ UNCHANGED <<fileIdx, result, exitCode, data, urls, idx, aarch32,
                   aarch64, others, attempted, resolution>>

\* The first-level result is not empty: fetch its first link, read unfiltered;
\* the arm's value is the second read's, the first-level result is dropped.
DrillDown ==
    /\ pc = "first_level"
    /\ firstLevel # <<>>
    /\ fetches' = Append(fetches, Request(DrillTarget(firstLevel), DrillFilter))
    /\ \/ /\ Return(Err("FetchError"))
          /\ UNCHANGED <<urls, lastPage, resolution>>
       \/ \E p \in Pages :
            /\ lastPage' = p
            /\ urls' = Read(p, DrillFilter)
            /\ resolution' = "drilled"
            /\ pc' = "resolved"
            /\ UNCHANGED <<ret, outcomes>>
    /\ firstLevel' = <<>>
    /\ UNCHANGED <<fileIdx, result, exitCode, data, idx, aarch32, aarch64, others,
                   attempted>>

\* Variant: an empty first-level result is an error.
EmptyFirstLevelAsError ==
    /\ pc = "first_level"
    /\ firstLevel = <<>>
    /\ resolution' = "empty"
    /\ Return(Err("FetchError"))
    /\ UNCHANGED <<fileIdx, result, exitCode, data, firstLevel, urls, idx,
                   aarch32, aarch64, others, attempted, fetches, lastPage>>

\* The first-level result is empty: it is the result.
EmptyFirstLevel ==
    /\ pc = "first_level"
    /\ firstLevel = <<>>
    /\ urls' = firstLevel
    /\ resolution' = "empty"
    /\ pc' = "resolved"
    /\ UNCHANGED <<fileIdx, result, exitCode, data, firstLevel, idx,
                   aarch32, aarch64, others, ret, attempted, outcomes, fetches,
                   lastPage>>

\* The match arm has ended (its locals are gone); the accumulators are set up.
BeginClassify ==
    /\ pc = "resolved"
    /\ aarch32' = None
    /\ aarch64' = None
    /\ others' = <<>>
    /\ idx' = 1
    /\ firstLevel' = <<>>
    /\ lastPage' = <<>>
    /\ pc' = "classify"
    /\ UNCHANGED <<fileIdx, result, exitCode, data, urls, ret, attempted,
                   outcomes, fetches, resolution>>

\* Variant: a link already in others is not pushed again.
FoldStepDedup(key, regex, ls, a32, a64, oth) ==
    LET items == Items(regex, ls)
        fresh == SelectSeq(items, LAMBDA l : \A i \in 1..Len(oth) : oth[i].link # l.link)
    IN  IF ToLowercase(key) = "arch32"
        THEN <<ItemsNext(items), a64, oth>>
        ELSE IF ToLowercase(key) = "arch64"
             THEN <<a32, ItemsNext(items), oth>>
             ELSE <<a32, a64, oth \o fresh>>

\* What one iteration of the loop over choco.regexes() leaves in the
\* accumulators <<aarch32, aarch64, others>> once the pattern has compiled.
FoldStep(key, regex, ls, a32, a64, oth) ==
    LET items == Items(regex, ls)
    IN  IF ToLowercase(key) = "arch32"
        THEN <<ItemsNext(items), a64, oth>>
        ELSE IF ToLowercase(key) = "arch64"
             THEN <<a32, ItemsNext(items), oth>>
             ELSE <<a32, a64, oth \o items>>

\* Variant: a pattern that does not compile is skipped.
ClassifyEntrySkipInvalid ==
    /\ pc = "classify"
    /\ idx <= Len(ChocoRegexes)
    /\ LET key == ChocoRegexes[idx].key
           regex == ChocoRegexes[idx].regex
           acc == IF RegexNew(regex)
                  THEN FoldStep(key, regex, urls, aarch32, aarch64, others)
                  ELSE <<aarch32, aarch64, others>>
       IN  /\ aarch32' = acc[1]
           /\ aarch64' = acc[2]
           /\ others' = acc[3]
    /\ idx' = idx + 1
    /\ UNCHANGED <<fileIdx, pc, result, exitCode, data, firstLevel, urls, ret,
                   attempted, outcomes, fetches, lastPage, resolution>>

\* One iteration of the loop over choco.regexes().
ClassifyEntry ==
    /\ pc = "classify"
    /\ idx <= Len(ChocoRegexes)
    /\ LET key == ChocoRegexes[idx].key
           regex == ChocoRegexes[idx].regex
       IN  \/ /\ ~RegexNew(regex)
              /\ Return(Err("PatternError"))
              /\ UNCHANGED <<idx, aarch32, aarch64, others>>
           \/ /\ RegexNew(regex)
              /\ LET acc == FoldStep(key, regex, urls, aarch32, aarch64, others)
                 IN  /\ aarch32' = acc[1]
                     /\ aarch64' = acc[2]
                     /\ others' = acc[3]
              /\ idx' = idx + 1
              /\ UNCHANGED <<pc, ret, outcomes>>
    /\ UNCHANGED <<fileIdx, result, exitCode, data, firstLevel, urls,
                   attempted, fetches, lastPage, resolution>>

\* The loop is over: Ok(()).
EndRunUpdate ==
    /\ pc = "classify"
    /\ idx > Len(ChocoRegexes)
    /\ Return(Ok)
    /\ UNCHANGED <<fileIdx, result, exitCode, data, firstLevel, urls, idx,
                   aarch32, aarch64, others, attempted, fetches, lastPage, resolution>>

\* Variant: the loop records the error and goes on to the next file.
MainOnErrNoBreak ==
    /\ pc = "returned"
    /\ ret # Ok
    /\ result' = ret
    /\ pc' = "main_loop"
    /\ FreshFrame
    /\ UNCHANGED <<fileIdx, exitCode, ret, attempted, outcomes>>

\* main, after run_update returned an error: result = Err(err); break; and the
\* final match exits with 1.
MainOnErr ==
    /\ pc = "returned"
    /\ ret # Ok
    /\ result' = ret
    /\ exitCode' = Some(1)
    /\ pc' = "finished"
    /\ FreshFrame
    /\ UNCHANGED <<fileIdx, ret, attempted, outcomes>>

\* main, after run_update returned Ok: on to the next file.
MainOnOk ==
    /\ pc = "returned"
    /\ ret = Ok
    /\ pc' = "main_loop"
    /\ FreshFrame
    /\ UNCHANGED <<fileIdx, result, exitCode, ret, attempted, outcomes>>

\* The iterator is exhausted (package_files is `required`, so not before one
\* file was taken): main's match finds Ok and main returns.
MainEnd ==
    /\ pc = "main_loop"
    /\ fileIdx >= 1
    /\ result = Ok
    /\ exitCode' = Some(0)
    /\ pc' = "finished"
    /\ UNCHANGED <<fileIdx, result, data, firstLevel, urls, idx, aarch32,
                   aarch64, others, ret, attempted, outcomes, fetches, lastPage,
                   resolution>>

Next ==
    \/ ReadFile
    \/ NoChocolatey
    \/ MissingParseUrl
    \/ FetchDirect
    \/ FetchFirstLevel
    \/ DrillDown
    \/ EmptyFirstLevel
    \/ BeginClassify
    \/ ClassifyEntry
    \/ EndRunUpdate
    \/ MainOnErr
    \/ MainOnOk
    \/ MainEnd

Spec ==
    Init /\ [][Next]_vars


\* ------------------------------------------------------ claims: vocabulary
HrefsOf(ls) ==
    [i \in 1..Len(ls) |-> ls[i].link]

\* The hrefs of hs the pattern matches, in the order of hs.
MatchingHrefs(hs, regex) ==
    SelectSeq(hs, LAMBDA h : Captures(regex, h).matched)

Last(seq) ==
    seq[Len(seq)]

Arch32Keys ==
    {"arch32", "ARCH32"}

Arch64Keys ==
    {"Arch64"}

ArchKeys ==
    Arch32Keys \cup Arch64Keys

\* The last of the first n regex entries whose key is one of keys (0: none).
LastEntryNamed(keys, n) ==
    LET named == {i \in 1..n : ChocoRegexes[i].key \in keys}
    IN  IF named = {} THEN 0 ELSE CHOOSE i \in named : \A j \in named : j <= i

\* The version a link matched by the pattern carries: the parsed text of the
\* group `version` when the group took part and its text parses.
ClaimedVersion(regex, href) ==
    LET c == Captures(regex, href)
    IN  IF c.version # None /\ VersionsParse(c.version.val) # None
        THEN Some(VersionsParse(c.version.val).val)
        ELSE None

FoldFinished ==
    pc = "classify" /\ idx > Len(ChocoRegexes)

AllPatternsCompile ==
    \A i \in 1..Len(ChocoRegexes) : RegexNew(ChocoRegexes[i].regex)

MissingStrategy ==
    data.has_chocolatey /\ data.parse_url = None

\* ---------------------------------------------------------------------- C1
\* C1: the files are taken strictly in input order; once the call for file k
\* has ended in an error no later file is attempted (k stays the last file
\* run_update was called on) and the error the run reports is file k's.
C1_BatchStopsAtFirstError ==
    /\ attempted = [i \in 1..fileIdx |-> i]
    /\ Len(outcomes) \in {Len(attempted) - 1, Len(attempted)}
    /\ \A k \in 1..Len(outcomes) :
         outcomes[k].tag = "Err" =>
           /\ k = Len(attempted)
           /\ pc \in {"returned", "finished"}
           /\ pc = "finished" => result = outcomes[k]
    /\ result # Ok => Len(outcomes) >= 1 /\ result = Last(outcomes)

C1_Witness ==
    /\ pc = "finished"
    /\ Len(outcomes) = 2
    /\ outcomes[1] = Ok
    /\ result = Err("FetchError")
    /\ attempted = <<1, 2>>
    /\ MaxFiles > 2

\* ---------------------------------------------------------------------- C2
\* C2: a package with Chocolatey data and no parse_url is never fetched for
\* nor classified: from the point it is loaded the only thing that happens
\* is the end of the process with exit code 5, and only such a package ends
\* the process with that code.
C2_MissingStrategyExits5 ==
    /\ MissingStrategy =>
         /\ pc \in {"loaded", "finished"}
         /\ fetches = <<>>
         /\ urls = <<>>
         /\ idx = 0
         /\ aarch32 = None /\ aarch64 = None /\ others = <<>>
         /\ pc = "finished" => exitCode = Some(5) /\ Last(outcomes) = Exited(5)
    /\ exitCode = Some(5) => pc = "finished" /\ MissingStrategy

C2_Witness ==
    /\ pc = "finished"
    /\ exitCode = Some(5)
    /\ MissingStrategy
    /\ fileIdx >= 2
    /\ \A k \in 1..(fileIdx - 1) : outcomes[k] = Ok
    /\ Len(data.regexes) = MaxEntries

\* ---------------------------------------------------------------------- C3
\* One step of the program, seen from a non-empty first-level result.
C3_DrillStep ==
    /\ pc = "first_level" /\ firstLevel # <<>> /\ pc' # pc =>
         /\ Len(fetches) = 1
         /\ fetches' = Append(fetches,
               Request(MatchingHrefs(lastPage, data.parse_url.val.regex)[1], None))
         /\ pc' \in {"resolved", "returned"}
         /\ pc' = "resolved" =>
              /\ resolution' = "drilled"
              /\ HrefsOf(urls') = lastPage'
              /\ \A i \in 1..Len(urls') : urls'[i].version = None
    /\ resolution = "drilled" => Len(fetches) = 2
    /\ resolution = "drilled" /\ resolution' = "drilled" => fetches' = fetches
    /\ Len(fetches') <= 2

\* C3: when the first, filtered read has returned at least one link, the next
\* step makes exactly one more request, for the href of the first link of
\* the first page (in document order) that the filter matches, unfiltered;
\* if it succeeds, the candidate list is exactly the link list of the page
\* it returned, and no further request is made for the package.
C3_DrillsIntoFirstMatch ==
    [][C3_DrillStep]_vars

\* A drill-down whose second page carries none of the first-level matches.
C3_Witness ==
    /\ pc = "resolved"
    /\ resolution = "drilled"
    /\ data.parse_url.val.regex = PatX86
    /\ Len(fetches) = 2
    /\ Len(urls) = MaxLinks
    /\ \A i \in 1..Len(urls) : urls[i].link # fetches[2].url

\* ---------------------------------------------------------------------- C4
\* C4 (as claimed): a filtered first read without any match makes no second
\* request, gives the empty candidate list, and the package's run never ends
\* in an error.
C4_EmptyNeverStopsBatch ==
    resolution = "empty" =>
      /\ Len(fetches) = 1
      /\ urls = <<>>
      /\ pc = "returned" => ret = Ok

\* C4 (amended): a filtered first read without any match makes no second
\* request and gives the empty candidate list; classification runs over it,
\* leaving every accumulator empty, and the package's run ends Ok unless one
\* of its classification patterns does not compile.
C4_EmptyIsNotAnError ==
    resolution = "empty" =>
      /\ fetches = <<Request(data.parse_url.val.url, Some(data.parse_url.val.regex))>>
      /\ urls = <<>>
      /\ pc \in {"resolved", "classify", "returned"}
      /\ aarch32 = None /\ aarch64 = None /\ others = <<>>
      /\ pc = "returned" =>
           /\ AllPatternsCompile => ret = Ok /\ idx = Len(ChocoRegexes) + 1
           /\ ret # Ok => ret = Err("PatternError") /\ ~RegexNew(ChocoRegexes[idx].regex)

C4_Witness ==
    /\ pc = "returned"
    /\ resolution = "empty"
    /\ ret = Ok
    /\ Len(ChocoRegexes) = MaxEntries
    /\ fileIdx < MaxFiles

\* ---------------------------------------------------------------------- C5
\* C5: with a plain url the package makes exactly one request, for that url
\* and unfiltered, and the candidate list is the page's hyperlinks in
\* document order, each once, whatever they are.
C5_DirectIsUnfiltered ==
    /\ resolution = "direct" =>
         /\ fetches = <<Request(data.parse_url.val.url, None)>>
         /\ pc = "resolved" =>
              /\ HrefsOf(urls) = lastPage
              /\ \A i \in 1..Len(urls) : urls[i].version = None
    /\ data.has_chocolatey /\ data.parse_url # None
         /\ data.parse_url.val.tag = "Url" /\ pc # "loaded" =>
         Len(fetches) = 1

C5_Witness ==
    /\ pc = "resolved"
    /\ resolution = "direct"
    /\ Len(urls) = MaxLinks
    /\ \E i \in 1..Len(urls) : ~Captures(PatX86, urls[i].link).matched
    /\ \E i, j \in 1..Len(urls) : i < j /\ urls[i].link # urls[j].link

\* ---------------------------------------------------------------------- C6
\* The slot as C6 states it after the first n entries: empty when no entry
\* carries the name; when the last entry that carries it matches a candidate,
\* the first candidate it matches; and never a link that is not the first
\* match of an entry carrying the name.
SlotAsClaimed(slot, keys, n) ==
    LET last == LastEntryNamed(keys, n)
        hs == HrefsOf(urls)
    IN  /\ last = 0 => slot = None
        /\ last # 0 /\ MatchingHrefs(hs, ChocoRegexes[last].regex) # <<>> =>
             /\ slot # None
             /\ slot.val.link = MatchingHrefs(hs, ChocoRegexes[last].regex)[1]
        /\ slot # None =>
             \E i \in 1..n :
               /\ ChocoRegexes[i].key \in keys
               /\ MatchingHrefs(hs, ChocoRegexes[i].regex) # <<>>
               /\ slot.val.link = MatchingHrefs(hs, ChocoRegexes[i].regex)[1]

\* C6: throughout the fold each architecture slot holds at most one link,
\* the first candidate (in candidate-list order) matched by an entry of that
\* name, the last such entry deciding.
C6_ArchSlotIsFirstMatch ==
    pc = "classify" =>
      /\ SlotAsClaimed(aarch32, Arch32Keys, idx - 1)
      /\ SlotAsClaimed(aarch64, Arch64Keys, idx - 1)

\* Two entries named arch32 (up to case), the later one overriding the
\* earlier, over candidates of which it matches the second only.
C6_Witness ==
    /\ FoldFinished
    /\ Len(ChocoRegexes) = 2
    /\ ChocoRegexes[1].key \in Arch32Keys /\ ChocoRegexes[2].key \in Arch32Keys
    /\ ChocoRegexes[1].regex = PatVersion /\ ChocoRegexes[2].regex = PatX86
    /\ Len(urls) >= 2
    /\ urls[1].link = "app-latest-x64.exe"
    /\ urls[2].link = "app-2.3.1-x86.exe"
    /\ aarch32 # None
    /\ aarch32.val.link = "app-2.3.1-x86.exe"

\* ---------------------------------------------------------------------- C7
\* The hrefs of others as C7 states them after the first n entries.
RECURSIVE OthersAsClaimed(_)
OthersAsClaimed(n) ==
    IF n = 0
    THEN <<>>
    ELSE OthersAsClaimed(n - 1)
         \o (IF ChocoRegexes[n].key \in ArchKeys
             THEN <<>>
             ELSE MatchingHrefs(HrefsOf(urls), ChocoRegexes[n].regex))

\* C7: throughout the fold others is the concatenation, in entry order, of the
\* candidates each entry not named arch32/arch64 matches, in candidate order,
\* nothing removed and nothing added by the architecture entries.
C7_OthersIsConcatenation ==
    pc = "classify" => HrefsOf(others) = OthersAsClaimed(idx - 1)

\* Two catch-all entries that match the same candidates: every link twice.
C7_Witness ==
    /\ FoldFinished
    /\ Len(ChocoRegexes) = 2
    /\ \A i \in 1..2 : ChocoRegexes[i].key \notin ArchKeys
    /\ Len(urls) = MaxLinks
    /\ Len(others) = 2 * MaxLinks
    /\ \E i, j \in 1..Len(others) : i < j /\ others[i] = others[j]
    /\ \E i, j \in 1..Len(others) : others[i].link # others[j].link

\* ---------------------------------------------------------------------- C8
\* The links of others, with their versions, as C8 states them.
LinksMatching(regex) ==
    LET hs == MatchingHrefs(HrefsOf(urls), regex)
    IN  [i \in 1..Len(hs) |-> [link |-> hs[i], version |-> ClaimedVersion(regex, hs[i])]]

RECURSIVE ClassifiedAsClaimed(_)
ClassifiedAsClaimed(n) ==
    IF n = 0
    THEN <<>>
    ELSE ClassifiedAsClaimed(n - 1)
         \o (IF ChocoRegexes[n].key \in ArchKeys
             THEN <<>>
             ELSE LinksMatching(ChocoRegexes[n].regex))

SlotVersionAsClaimed(slot, keys, n) ==
    slot # None =>
      /\ LastEntryNamed(keys, n) # 0
      /\ slot.val.version =
           ClaimedVersion(ChocoRegexes[LastEntryNamed(keys, n)].regex, slot.val.link)

\* C8: every classified link carries a version exactly when the group
\* `version` took part in its match and the captured text parses; a link
\* whose version is absent is classified all the same, and the only error
\* classification can end in is a pattern that does not compile.
C8_VersionOnlyWhenParsed ==
    /\ pc = "classify" =>
         /\ others = ClassifiedAsClaimed(idx - 1)
         /\ SlotVersionAsClaimed(aarch32, Arch32Keys, idx - 1)
         /\ SlotVersionAsClaimed(aarch64, Arch64Keys, idx - 1)
    /\ pc = "returned" /\ idx >= 1 /\ ret # Ok =>
         ret = Err("PatternError") /\ ~RegexNew(ChocoRegexes[idx].regex)

\* One pattern, three outcomes: a version that parses, a captured text that
\* does not, and (in the slot) a match of a pattern without the group.
C8_Witness ==
    /\ FoldFinished
    /\ \E i, j \in 1..Len(others) :
         /\ others[i].version = Some(<<2, 3, 1>>)
         /\ others[j].link = "app-latest-x64.exe"
         /\ others[j].version = None
    /\ aarch32 # None
    /\ aarch32.val.version = None

\* ---------------------------------------------------------------------- C9
\* What both readings of C9 share: a call that ends in an error is the last
\* one; no pattern that does not compile is passed over; each error kind
\* comes from its own place; the exit code is 5 for the missing parse_url,
\* 1 for a returned error and 0 otherwise.
C9_Common ==
    /\ \A k \in 1..Len(outcomes) : outcomes[k] # Ok => k = Len(attempted)
    /\ pc = "classify" => \A i \in 1..(idx - 1) : RegexNew(ChocoRegexes[i].regex)
    /\ pc = "returned" /\ ret # Ok =>
         /\ ret = Last(outcomes)
         /\ \/ ret = Err("DefinitionParseError") /\ fetches = <<>>
            \/ ret = Err("FetchError") /\ Len(fetches) \in {1, 2} /\ idx = 0
            \/ ret = Err("PatternError") /\ ~RegexNew(ChocoRegexes[idx].regex)
    /\ pc = "finished" =>
         /\ Last(outcomes) = Ok => exitCode = Some(0)
         /\ Last(outcomes).tag = "Err" => exitCode = Some(1)
         /\ Last(outcomes).tag = "Exit" => exitCode = Some(5) /\ MissingStrategy

\* C9 (as claimed): in addition, every call that does not end Ok, the one
\* for a package without parse_url included, hands its error to the loop of
\* main, whose result is that error when the process ends.
C9_EveryErrorReachesLoop ==
    /\ C9_Common
    /\ pc = "finished" /\ Last(outcomes) # Ok =>
         result # Ok /\ result.tag = "Err"

\* C9 (amended): in addition, every returned error is main's result when the
\* process ends, while the missing parse_url never reaches the loop of main:
\* the process ends inside run_update and main's result is still Ok.
C9_ErrorPropagation ==
    /\ C9_Common
    /\ pc = "finished" /\ Last(outcomes).tag = "Err" => result = Last(outcomes)
    /\ pc = "finished" /\ Last(outcomes).tag = "Exit" => result = Ok

\* A pattern that does not compile, met after an earlier entry filled a slot.
C9_Witness ==
    /\ pc = "returned"
    /\ ret = Err("PatternError")
    /\ idx = 2
    /\ aarch32 # None
    /\ fileIdx >= 2

\* --------------------------------------------------------------------- C10
\* One step of the fold, seen from the slots.
C10_SlotStep ==
    pc = "classify" /\ pc' = "classify" =>
      /\ aarch32 # None => aarch32' # None
      /\ aarch64 # None => aarch64' # None

\* C10: within the fold of one package an architecture slot that holds a
\* link keeps holding one through every later step of the fold.
C10_SlotsNeverCleared ==
    [][C10_SlotStep]_vars

====
